---- MODULE Spec2Model ----
(***************************************************************************)
(* vmware_tui: the interactive loop (main), the background poller          *)
(* (vm_refresh_worker), the module-level caches of api/vm_get.py and the   *)
(* gate menu_lock of config/settings.py, as one state machine.             *)
(*                                                                         *)
(* Two threads, "ui" (main) and "poller" (vm_refresh_worker), take steps.  *)
(* A step is the code between two points at which the other thread can    *)
(* observe a difference: a lock operation, one hypervisor request with the *)
(* cache update that follows it, one iteration of the interactive loop     *)
(* (getch, publish the submenu, draw, handle the key).                     *)
(*                                                                         *)
(* Colours, themes and the log output are not part of the state: the theme *)
(* options of the config menu leave every variable of the model as it is.  *)
(***************************************************************************)
EXTENDS Integers, Sequences, FiniteSets, TLC

----------------------------------------------------------------------------
(* Bounds of the model.                                                    *)

\* time.time() when the program starts (any value >= FULL_REFRESH_INTERVAL
\* behaves like the real clock: the first poller tick finds both timers due)
StartTime == 100
\* the clock is observed every TimeStep seconds
TimeStep == 5
\* the clock stops MaxElapsed seconds after the start
MaxElapsed == 10
\* the VM identifiers the hypervisor knows
VMIds == {"a", "b"}
\* the listings GET /vms can answer with (in the hypervisor's order)
Listings == {<< >>, <<"a">>}
\* the power states GET /vms/{id}/power can answer with
PowerStates == {"poweredOn"}

----------------------------------------------------------------------------
(* Program constants.                                                      *)

CACHE_TIMEOUT == 5
REFRESH_INTERVAL == 5
POWER_STATE_INTERVAL == 10
FULL_REFRESH_INTERVAL == 30
\* time.sleep(1) of vm_refresh_worker's except branch
ERROR_BACKOFF == 1
\* VMMenu.update_interval
update_interval == 5

Threads == {"ui", "poller"}
Keys == {"none", "UP", "DOWN", "ENTER", "q", "c"}

\* ConfigMenu.options, by row (0-based)
ConfigOptions ==
    << "Change Theme", "Generate Random Theme", "Save Current Theme",
       "Delete Custom Theme", "Invert Background", "Invert Text",
       "Hide/Show VMs", "Back to Main Menu" >>
\* VMMenu.options, by row (0-based)
VMOptions ==
    << "Start VM", "Shutdown VM", "Stop VM", "Suspend VM", "Back to Main Menu" >>

NoEntry == [t |-> 0, state |-> "none"]
NoFrame == [force |-> FALSE, ret |-> "none", listing |-> << >>, idx |-> 0,
            acc |-> << >>, same |-> FALSE]
NoCfg == [row |-> 0, in_vm_selection |-> FALSE, vm_list |-> << >>]
NoVmm == [vm_id |-> "none", row |-> 0, last_update |-> 0, msg |-> "none"]

VARIABLES
    now,                \* time.time()
    menu_lock,          \* owner of config.settings.menu_lock, or "free"
    vm_list_cache,      \* api.vm_get.vm_list_cache: sequence of VM records
    last_refresh,       \* api.vm_get.last_refresh
    power_state_cache,  \* api.vm_get.power_state_cache: id -> (time, state)
    vm_list,            \* MainMenu.vm_list
    aliased,            \* MainMenu.vm_list is the list object vm_list_cache
    main_row,           \* MainMenu.current_row
    hidden_vms,         \* config.settings.hidden_vms
    published,          \* main_menu.current_menu, what the poller reads
    current_menu,       \* main's local current_menu: the active screen
    cfg,                \* the ConfigMenu object
    vmm,                \* the VMMenu object
    va,                 \* vm_action's outcome, until it returns
    screen,             \* the screen drawn last on the terminal
    pc,                 \* each thread's position
    frame,              \* each thread's get_vm_list activation
    current_time,       \* vm_refresh_worker's current_time
    last_full_refresh,  \* vm_refresh_worker's last_full_refresh
    last_power_check,   \* vm_refresh_worker's last_power_check
    wake,               \* when the poller's time.sleep returns
    branch              \* the branch the poller's current or last iteration
                        \* took: "suspended", "checked" ("checked_vm" when
                        \* a VMMenu was the active screen at the test),
                        \* "timeout", "full", "power" or "nothing"

caches == << vm_list_cache, last_refresh, power_state_cache, vm_list, aliased >>
menuvars == << main_row, hidden_vms, published, current_menu, cfg, vmm, va >>
uivars == << menuvars, screen >>
pollervars == << current_time, last_full_refresh, last_power_check, wake, branch >>
vars == << now, menu_lock, caches, uivars, pollervars, pc, frame >>

\* the process has not exited
Running == pc["ui"] \notin {"exited", "crashed"}

----------------------------------------------------------------------------
(* The hypervisor client.                                                  *)

\* requests.get / requests.put: what a request can end with. Without a
\* timeout argument the request may never return ("hang"); with one it
\* raises requests.Timeout instead.
RequestOutcomes(timed) ==
    {"ok", "rejected", "neterror"} \cup (IF timed THEN {"timeout"} ELSE {"hang"})

\* whether the requests.get calls of api/vm_get.py pass timeout= (they do not)
GetTimed == FALSE
\* whether requests.put in vm_action passes timeout= (timeout=10)
PutTimed == TRUE

(* get_vm_power_state recording a failed request in the cache, as it       *)
(* records an answered one.                                                *)
GetVmPowerStateCachesFailure(vm_id) ==
    LET entry == power_state_cache[vm_id]
        Result(state, cache, wrote, hang, outcome) ==
            [state |-> state, cache |-> cache, wrote |-> wrote, hang |-> hang,
             outcome |-> outcome]
    IN  IF entry # NoEntry /\ now - entry.t < CACHE_TIMEOUT
        THEN {Result(entry.state, power_state_cache, FALSE, FALSE, "cached")}
        ELSE UNION { IF o = "ok"
                     THEN {Result(s, [power_state_cache EXCEPT
                                        ![vm_id] = [t |-> now, state |-> s]],
                                  TRUE, FALSE, o) : s \in PowerStates}
                     ELSE IF o = "hang"
                     THEN {Result("UNKNOWN", power_state_cache, FALSE, TRUE, o)}
                     ELSE {Result("UNKNOWN", [power_state_cache EXCEPT
                                        ![vm_id] = [t |-> now, state |-> "UNKNOWN"]],
                                  TRUE, FALSE, o)}
                   : o \in RequestOutcomes(GetTimed) }

(* get_vm_power_state stamping every entry of the cache with the time of   *)
(* an answered request.                                                    *)
GetVmPowerStateStampsAll(vm_id) ==
    LET entry == power_state_cache[vm_id]
        Result(state, cache, wrote, hang, outcome) ==
            [state |-> state, cache |-> cache, wrote |-> wrote, hang |-> hang,
             outcome |-> outcome]
    IN  IF entry # NoEntry /\ now - entry.t < CACHE_TIMEOUT
        THEN {Result(entry.state, power_state_cache, FALSE, FALSE, "cached")}
        ELSE UNION { IF o = "ok"
                     THEN {Result(s, [v \in VMIds |->
                                        IF v = vm_id
                                        THEN [t |-> now, state |-> s]
                                        ELSE IF power_state_cache[v] = NoEntry
                                        THEN NoEntry
                                        ELSE [power_state_cache[v] EXCEPT !.t = now]],
                                  TRUE, FALSE, o) : s \in PowerStates}
                     ELSE IF o = "hang"
                     THEN {Result("UNKNOWN", power_state_cache, FALSE, TRUE, o)}
                     ELSE {Result("UNKNOWN", power_state_cache, FALSE, FALSE, o)}
                   : o \in RequestOutcomes(GetTimed) }

(* get_vm_power_state answering a failed request with the expired entry's  *)
(* state.                                                                  *)
GetVmPowerStateServesStale(vm_id) ==
    LET entry == power_state_cache[vm_id]
        Result(state, cache, wrote, hang, outcome) ==
            [state |-> state, cache |-> cache, wrote |-> wrote, hang |-> hang,
             outcome |-> outcome]
    IN  IF entry # NoEntry /\ now - entry.t < CACHE_TIMEOUT
        THEN {Result(entry.state, power_state_cache, FALSE, FALSE, "cached")}
        ELSE UNION { IF o = "ok"
                     THEN {Result(s, [power_state_cache EXCEPT
                                        ![vm_id] = [t |-> now, state |-> s]],
                                  TRUE, FALSE, o) : s \in PowerStates}
                     ELSE IF o = "hang"
                     THEN {Result("UNKNOWN", power_state_cache, FALSE, TRUE, o)}
                     ELSE {Result(IF entry # NoEntry THEN entry.state ELSE "UNKNOWN",
                                  power_state_cache, FALSE, FALSE, o)}
                   : o \in RequestOutcomes(GetTimed) }

(* get_vm_power_state(vm_id) called at time now: the set of its possible   *)
(* results, each with the returned state, the power-state cache after the  *)
(* call, whether the cache was assigned, whether the request hangs, and    *)
(* what the request ended with ("cached" when none was made).              *)
get_vm_power_state(vm_id) ==
    LET entry == power_state_cache[vm_id]
        Result(state, cache, wrote, hang, outcome) ==
            [state |-> state, cache |-> cache, wrote |-> wrote, hang |-> hang,
             outcome |-> outcome]
    IN  IF entry # NoEntry /\ now - entry.t < CACHE_TIMEOUT
        THEN {Result(entry.state, power_state_cache, FALSE, FALSE, "cached")}
        ELSE UNION { IF o = "ok"
                     THEN {Result(s, [power_state_cache EXCEPT
                                        ![vm_id] = [t |-> now, state |-> s]],
                                  TRUE, FALSE, o) : s \in PowerStates}
                     ELSE IF o = "hang"
                     THEN {Result("UNKNOWN", power_state_cache, FALSE, TRUE, o)}
                     ELSE {Result("UNKNOWN", power_state_cache, FALSE, FALSE, o)}
                   : o \in RequestOutcomes(GetTimed) }

----------------------------------------------------------------------------
(* utils/logging.py.                                                       *)

\* log_message(message, level, refresh): the file the message is written
\* to, and whether it is put on status_log, the queue of the on-screen log
log_message(level, refresh) ==
    [file |-> IF refresh THEN "vm_refresh.log" ELSE "vmware_manager.log",
     level |-> level,
     queued |-> ~refresh]

\* log_message("API CALL: GET /vms (List VMs)") of get_vm_list and
\* log_message("API CALL: GET /vms/{id}/power ...") of get_vm_power_state
ApiCallLog == log_message("INFO", FALSE)
\* log_message("Starting VM list refresh ...", refresh=True) and
\* log_message("VM list refresh complete ...", refresh=True)
RefreshLog == log_message("INFO", TRUE)

----------------------------------------------------------------------------
(* menu_lock.                                                              *)

\* menu_lock.acquire() / with menu_lock: returns only with the lock taken
AcquireBlocking(t) ==
    /\ menu_lock = "free"
    /\ menu_lock' = t

\* a timed acquire that succeeds although another thread holds the lock
AcquireTimedSteals(t, got) ==
    \/ /\ got
       /\ menu_lock' = t
    \/ /\ ~got
       /\ menu_lock # "free"
       /\ UNCHANGED menu_lock

\* a timed acquire without its timeout: it returns only with the lock taken
AcquireTimedBlocks(t, got) ==
    /\ got
    /\ menu_lock = "free"
    /\ menu_lock' = t

\* menu_lock.acquire(timeout=1.0): TRUE with the lock taken, or FALSE after
\* the timeout when another thread holds it
AcquireTimed(t, got) ==
    \/ /\ got
       /\ menu_lock = "free"
       /\ menu_lock' = t
    \/ /\ ~got
       /\ menu_lock # "free"
       /\ UNCHANGED menu_lock

\* a release placed after the guarded code instead of in a finally clause:
\* an exception skips it
ReleaseUnlessRaised(t, raised) ==
    menu_lock' = IF raised THEN menu_lock ELSE "free"

\* menu_lock.release() of a finally clause / the exit of with menu_lock,
\* reached on the normal path and on an exception (raised) alike
Release(t, raised) ==
    menu_lock' = "free"

----------------------------------------------------------------------------
(* get_vm_list(force), run by thread t in steps.                           *)

Call(t, force, ret) ==
    /\ pc' = [pc EXCEPT ![t] = "gvl_call"]
    /\ frame' = [frame EXCEPT ![t] = [NoFrame EXCEPT !.force = force, !.ret = ret]]

\* return value v; same: v is the list object vm_list_cache
Return(t, v, same) ==
    /\ pc' = [pc EXCEPT ![t] = frame[t].ret]
    /\ frame' = [frame EXCEPT ![t] = [NoFrame EXCEPT !.acc = v, !.same = same]]

\* the cache test and the GET /vms request, answered from listings
GetVmListFrom(t, listings) ==
    /\ Running
    /\ pc[t] = "gvl_call"
    /\ IF ~frame[t].force /\ vm_list_cache # << >>
          /\ now - last_refresh < CACHE_TIMEOUT
       THEN /\ Return(t, vm_list_cache, TRUE)
       ELSE \E o \in RequestOutcomes(GetTimed) :
              \/ /\ o = "ok"
                 /\ \E l \in listings :
                      frame' = [frame EXCEPT ![t].listing = l, ![t].idx = 1]
                 /\ pc' = [pc EXCEPT ![t] = "gvl_loop"]
              \/ /\ o \in {"rejected", "neterror"}
                 /\ Return(t, << >>, FALSE)
              \/ /\ o = "hang"
                 /\ pc' = [pc EXCEPT ![t] = "hung"]
                 /\ UNCHANGED frame
    /\ UNCHANGED << now, menu_lock, caches, uivars, pollervars >>

\* get_vm_list up to the response, as the program's threads run it
GetVmListCall(t) == GetVmListFrom(t, Listings)

\* one iteration of the loop over response.json(): the VM's power state
GetVmListLoop(t) ==
    /\ Running
    /\ pc[t] = "gvl_loop"
    /\ frame[t].idx <= Len(frame[t].listing)
    /\ LET vm_id == frame[t].listing[frame[t].idx]
       IN  \E r \in get_vm_power_state(vm_id) :
             IF r.hang
             THEN /\ pc' = [pc EXCEPT ![t] = "hung"]
                  /\ UNCHANGED << frame, power_state_cache >>
             ELSE /\ frame' = [frame EXCEPT
                        ![t].acc = Append(@, [id |-> vm_id, power_state |-> r.state]),
                        ![t].idx = @ + 1]
                  /\ power_state_cache' = r.cache
                  /\ UNCHANGED pc
    /\ UNCHANGED << now, menu_lock, vm_list_cache, last_refresh, vm_list, aliased,
                    uivars, pollervars >>

\* a commit that extends the cached inventory instead of replacing it
GetVmListCommitMerges(t) ==
    /\ Running
    /\ pc[t] = "gvl_loop"
    /\ frame[t].idx > Len(frame[t].listing)
    /\ vm_list_cache' = vm_list_cache \o frame[t].acc
    /\ last_refresh' = now
    /\ aliased' = FALSE
    /\ Return(t, vm_list_cache \o frame[t].acc, TRUE)
    /\ UNCHANGED << now, menu_lock, power_state_cache, vm_list, uivars, pollervars >>

\* vm_list_cache = vm_list; last_refresh = time.time(); return vm_list
GetVmListCommit(t) ==
    /\ Running
    /\ pc[t] = "gvl_loop"
    /\ frame[t].idx > Len(frame[t].listing)
    /\ vm_list_cache' = frame[t].acc
    /\ last_refresh' = now
    /\ aliased' = FALSE
    /\ Return(t, frame[t].acc, TRUE)
    /\ UNCHANGED << now, menu_lock, power_state_cache, vm_list, uivars, pollervars >>

----------------------------------------------------------------------------
(* vm_refresh_worker.                                                      *)

\* time.sleep(seconds) at position at: "sleep" (the end of an iteration,
\* and the sleep while a submenu is open) or "backoff" (the except branch)
Sleep(seconds, at) ==
    /\ wake' = now + seconds
    /\ pc' = [pc EXCEPT !["poller"] = at]

FullDue == current_time - last_full_refresh >= FULL_REFRESH_INTERVAL
PowerDue == current_time - last_power_check >= POWER_STATE_INTERVAL

\* main_menu._shutdown, the flag of the poller's while condition: assigned
\* False when the worker starts and by no other statement of the program
\* (cleanup_handler sets the module's _SHUTDOWN_FLAG instead)
main_menu_shutdown == FALSE

\* the top of the while loop: current_time and the submenu test
PollerTop ==
    /\ Running
    /\ ~main_menu_shutdown
    /\ \/ pc["poller"] = "top"
       \/ pc["poller"] \in {"sleep", "backoff"} /\ now >= wake
    /\ current_time' = now
    /\ IF published # "none"
       THEN /\ Sleep(REFRESH_INTERVAL, "sleep")
            /\ branch' = "suspended"
       ELSE /\ pc' = [pc EXCEPT !["poller"] = "acquire"]
            /\ branch' = IF current_menu = "vm" THEN "checked_vm" ELSE "checked"
            /\ UNCHANGED wake
    /\ UNCHANGED << now, menu_lock, caches, uivars, frame, last_full_refresh,
                    last_power_check >>

\* a failed acquire that counts the skipped tick as a refresh done
PollerAcquireResetsTimers ==
    /\ Running
    /\ pc["poller"] = "acquire"
    /\ \E got \in BOOLEAN :
         /\ AcquireTimed("poller", got)
         /\ IF got
            THEN /\ pc' = [pc EXCEPT !["poller"] = "locked"]
                 /\ UNCHANGED << wake, branch, last_full_refresh, last_power_check >>
            ELSE /\ Sleep(REFRESH_INTERVAL, "sleep")
                 /\ branch' = "timeout"
                 /\ last_full_refresh' = current_time
                 /\ last_power_check' = current_time
    /\ UNCHANGED << now, caches, uivars, frame, current_time >>

\* menu_lock.acquire(timeout=1.0)
PollerAcquire ==
    /\ Running
    /\ pc["poller"] = "acquire"
    /\ \E got \in BOOLEAN :
         /\ AcquireTimed("poller", got)
         /\ IF got
            THEN /\ pc' = [pc EXCEPT !["poller"] = "locked"]
                 /\ UNCHANGED << wake, branch >>
            ELSE /\ Sleep(REFRESH_INTERVAL, "sleep")
                 /\ branch' = "timeout"
    /\ UNCHANGED << now, caches, uivars, frame, current_time, last_full_refresh,
                    last_power_check >>

\* the two tests in the other order: the power refresh first
TickKindPowerFirst ==
    IF published # "none" THEN "nothing"
    ELSE IF PowerDue THEN "power"
    ELSE IF FullDue THEN "full"
    ELSE "nothing"

\* the timers alone, without the second test of main_menu.current_menu
TickKindUnchecked ==
    IF FullDue THEN "full"
    ELSE IF PowerDue THEN "power"
    ELSE "nothing"

\* which refresh this tick runs: "full", "power" or "nothing"
TickKind ==
    IF published # "none" THEN "nothing"
    ELSE IF FullDue THEN "full"
    ELSE IF PowerDue THEN "power"
    ELSE "nothing"

\* a full refresh that acquires menu_lock itself, inside the section the
\* worker already guards with it
PollerLockedReacquires ==
    /\ Running
    /\ pc["poller"] = "locked"
    /\ branch' = TickKind
    /\ \/ /\ TickKind = "full"
          /\ pc' = [pc EXCEPT !["poller"] = "acquire"]
          /\ UNCHANGED << menu_lock, wake, frame >>
       \/ /\ TickKind = "power"
          /\ pc' = [pc EXCEPT !["poller"] = "power_loop"]
          /\ frame' = [frame EXCEPT !["poller"].idx = 1]
          /\ UNCHANGED << menu_lock, wake >>
       \/ /\ TickKind = "nothing"
          /\ Release("poller", FALSE)
          /\ Sleep(REFRESH_INTERVAL, "sleep")
          /\ UNCHANGED frame
    /\ UNCHANGED << now, caches, uivars, current_time, last_full_refresh,
                    last_power_check >>

\* the body under the lock, up to the refresh it starts
PollerLocked ==
    /\ Running
    /\ pc["poller"] = "locked"
    /\ branch' = TickKind
    /\ \/ /\ TickKind = "full"
          /\ Call("poller", TRUE, "full_assign")
          /\ UNCHANGED << menu_lock, wake >>
       \/ /\ TickKind = "power"
          /\ pc' = [pc EXCEPT !["poller"] = "power_loop"]
          /\ frame' = [frame EXCEPT !["poller"].idx = 1]
          /\ UNCHANGED << menu_lock, wake >>
       \/ /\ TickKind = "nothing"
          /\ Release("poller", FALSE)
          /\ Sleep(REFRESH_INTERVAL, "sleep")
          /\ UNCHANGED frame
    /\ UNCHANGED << now, caches, uivars, current_time, last_full_refresh,
                    last_power_check >>

\* a full refresh that forgets the hidden flags of VMs it no longer lists
PollerFullAssignUnhides ==
    /\ Running
    /\ pc["poller"] = "full_assign"
    /\ vm_list' = frame["poller"].acc
    /\ aliased' = frame["poller"].same
    /\ hidden_vms' = {v \in hidden_vms :
                          \E i \in 1..Len(frame["poller"].acc) :
                              frame["poller"].acc[i].id = v}
    /\ frame' = [frame EXCEPT !["poller"] = NoFrame]
    /\ \E raised \in BOOLEAN :
         /\ Release("poller", raised)
         /\ IF raised
            THEN /\ Sleep(ERROR_BACKOFF, "backoff")
                 /\ UNCHANGED last_full_refresh
            ELSE /\ last_full_refresh' = current_time
                 /\ Sleep(REFRESH_INTERVAL, "sleep")
         /\ screen' = IF raised THEN screen ELSE "main"
    /\ UNCHANGED << now, vm_list_cache, last_refresh, power_state_cache, main_row,
                    published, current_menu, cfg, vmm, va,
                    current_time, last_power_check, branch >>

\* the rest of refresh_vm_list(force=True) and of the tick: self.vm_list,
\* draw_screen() in the finally clause (which may raise curses.error),
\* last_full_refresh, the release, the sleep
PollerFullAssign ==
    /\ Running
    /\ pc["poller"] = "full_assign"
    /\ vm_list' = frame["poller"].acc
    /\ aliased' = frame["poller"].same
    /\ frame' = [frame EXCEPT !["poller"] = NoFrame]
    /\ \E raised \in BOOLEAN :
         /\ Release("poller", raised)
         /\ IF raised
            THEN /\ Sleep(ERROR_BACKOFF, "backoff")
                 /\ UNCHANGED last_full_refresh
            ELSE /\ last_full_refresh' = current_time
                 /\ Sleep(REFRESH_INTERVAL, "sleep")
         /\ screen' = IF raised THEN screen ELSE "main"
    /\ UNCHANGED << now, vm_list_cache, last_refresh, power_state_cache, menuvars,
                    current_time, last_power_check, branch >>

\* one iteration of: for vm in main_menu.vm_list:
\*     vm['power_state'] = get_vm_power_state(vm_id)
PollerPowerLoop ==
    /\ Running
    /\ pc["poller"] = "power_loop"
    /\ frame["poller"].idx <= Len(vm_list)
    /\ LET i == frame["poller"].idx
       IN  \E r \in get_vm_power_state(vm_list[i].id) :
             IF r.hang
             THEN /\ pc' = [pc EXCEPT !["poller"] = "hung"]
                  /\ UNCHANGED << frame, power_state_cache, vm_list, vm_list_cache >>
             ELSE /\ vm_list' = [vm_list EXCEPT ![i].power_state = r.state]
                  /\ vm_list_cache' = IF aliased THEN vm_list' ELSE vm_list_cache
                  /\ power_state_cache' = r.cache
                  /\ frame' = [frame EXCEPT !["poller"].idx = i + 1]
                  /\ UNCHANGED pc
    /\ UNCHANGED << now, menu_lock, last_refresh, aliased, uivars, pollervars >>

\* after the loop: draw_screen(), last_power_check, the release, the sleep
PollerPowerDone ==
    /\ Running
    /\ pc["poller"] = "power_loop"
    /\ frame["poller"].idx > Len(vm_list)
    /\ frame' = [frame EXCEPT !["poller"] = NoFrame]
    /\ \E raised \in BOOLEAN :
         /\ Release("poller", raised)
         /\ IF raised
            THEN /\ Sleep(ERROR_BACKOFF, "backoff")
                 /\ UNCHANGED last_power_check
            ELSE /\ last_power_check' = current_time
                 /\ Sleep(REFRESH_INTERVAL, "sleep")
         /\ screen' = IF raised THEN screen ELSE "main"
    /\ UNCHANGED << now, caches, menuvars, current_time, last_full_refresh, branch >>

----------------------------------------------------------------------------
(* The clock.                                                              *)

Tick ==
    /\ Running
    /\ pc["poller"] # "not_started"
    /\ now + TimeStep <= StartTime + MaxElapsed
    /\ now' = now + TimeStep
    /\ UNCHANGED << menu_lock, caches, uivars, pollervars, pc, frame >>

----------------------------------------------------------------------------
(* Drawing.                                                                *)

\* the screen a draw of the active menu leaves on the terminal
ScreenOf(menu) == IF menu = "none" THEN "main" ELSE menu

DrawResult(crash, hang, cache, wrote, last_update) ==
    [crash |-> crash, hang |-> hang, cache |-> cache, wrote |-> wrote,
     last_update |-> last_update]

\* VMMenu.update_vm_info(): get_vm_details (uncached, no timeout) and
\* get_vm_power_state, when update_interval has passed since last_update
update_vm_info(vm_id, last_update) ==
    IF now - last_update >= update_interval
    THEN {DrawResult(FALSE, r.hang, r.cache, r.wrote, now) :
              r \in get_vm_power_state(vm_id)}
         \cup {DrawResult(FALSE, TRUE, power_state_cache, FALSE, last_update)}
    ELSE {DrawResult(FALSE, FALSE, power_state_cache, FALSE, last_update)}

\* MainMenu.draw_screen(): curses.error may escape it
draw_screen ==
    {DrawResult(raised, FALSE, power_state_cache, FALSE, vmm.last_update) :
         raised \in BOOLEAN}

\* draw_screen's visible_vms: the displayed list without the hidden VMs
visible_vms ==
    LET Shown(vm) == vm.id \notin hidden_vms
    IN  SelectSeq(vm_list, Shown)

\* the id of the VM draw_screen draws in reverse video: the entry of
\* visible_vms at index current_row, "none" when there is no such entry
highlighted ==
    IF main_row < Len(visible_vms) THEN visible_vms[main_row + 1].id ELSE "none"

\* ConfigMenu.draw(): max() over an empty self.vm_list raises ValueError
ConfigDraw ==
    {DrawResult(cfg.in_vm_selection /\ cfg.vm_list = << >>, FALSE,
                power_state_cache, FALSE, vmm.last_update)}

\* VMMenu.draw(): the periodic update_vm_info()
VMDraw == update_vm_info(vmm.vm_id, vmm.last_update)

\* the draw of the active screen, lines 186-191 of main
ActiveDraw ==
    IF current_menu = "config" THEN ConfigDraw
    ELSE IF current_menu = "vm" THEN VMDraw ELSE draw_screen

\* the draws after which the interactive loop goes on to the key tests
Drawn == {d \in ActiveDraw : ~d.crash /\ ~d.hang}

----------------------------------------------------------------------------
(* main.                                                                   *)

\* what no step of the interactive loop's while body assigns
offloop == << now, menu_lock, vm_list_cache, last_refresh, vm_list, aliased,
              pollervars, frame >>

\* cleanup_handler(): curses is torn down and sys.exit(0) ends the process,
\* the daemon poller thread with it; nothing of the program's state is left
Exit(code) ==
    /\ pc' = [ui |-> code,
              poller |-> IF pc["poller"] = "not_started" THEN "not_started"
                         ELSE "killed"]
    /\ menu_lock' = "free"
    /\ vm_list_cache' = << >>
    /\ last_refresh' = 0
    /\ power_state_cache' = [v \in VMIds |-> NoEntry]
    /\ vm_list' = << >>
    /\ aliased' = FALSE
    /\ main_row' = 0
    /\ hidden_vms' = {}
    /\ published' = "none"
    /\ current_menu' = "none"
    /\ cfg' = NoCfg
    /\ vmm' = NoVmm
    /\ va' = "none"
    /\ screen' = "none"
    /\ frame' = [t \in Threads |-> NoFrame]
    /\ current_time' = 0
    /\ last_full_refresh' = 0
    /\ last_power_check' = 0
    /\ wake' = 0
    /\ branch' = "none"
    /\ UNCHANGED now

\* an initial fetch during which the worker thread is already running
UiInitStartsWorker ==
    /\ pc["ui"] = "init"
    /\ AcquireBlocking("ui")
    /\ pc' = [ui |-> "gvl_call", poller |-> "top"]
    /\ frame' = [frame EXCEPT !["ui"] = [NoFrame EXCEPT !.force = TRUE,
                                                         !.ret = "init_assign"]]
    /\ UNCHANGED << now, caches, uivars, pollervars >>

\* with menu_lock: ... main_menu.refresh_vm_list(force=True)
UiInit ==
    /\ pc["ui"] = "init"
    /\ AcquireBlocking("ui")
    /\ Call("ui", TRUE, "init_assign")
    /\ UNCHANGED << now, caches, uivars, pollervars >>

\* the rest of refresh_vm_list, the end of the with block, and
\* refresh_thread.start(); an exception of draw_screen leaves the with block
\* for the except clause of main
UiInitAssign ==
    /\ pc["ui"] = "init_assign"
    /\ vm_list' = frame["ui"].acc
    /\ aliased' = frame["ui"].same
    /\ frame' = [frame EXCEPT !["ui"] = NoFrame]
    /\ \E d \in draw_screen :
         /\ Release("ui", d.crash)
         /\ pc' = IF d.crash THEN [pc EXCEPT !["ui"] = "raised"]
                  ELSE [pc EXCEPT !["ui"] = "loop", !["poller"] = "top"]
    /\ screen' = "main"
    /\ UNCHANGED << now, vm_list_cache, last_refresh, power_state_cache, menuvars,
                    pollervars >>

\* the except / finally clause of main after an exception left a with block
UiCleanup ==
    /\ pc["ui"] = "raised"
    /\ Exit("crashed")

(* One iteration of the while loop of main is one step: getch, the         *)
(* assignment of main_menu.current_menu (what the poller reads), the draw  *)
(* of the active screen, then the branch the key selects.                  *)

\* key == -1, or the draw hangs in a request without timeout, whatever the key
UiIdle ==
    /\ pc["ui"] = "loop"
    /\ published' = current_menu
    /\ \E d \in ActiveDraw :
         /\ ~d.crash
         /\ power_state_cache' = d.cache
         /\ vmm' = [vmm EXCEPT !.last_update = d.last_update]
         /\ pc' = [pc EXCEPT !["ui"] = IF d.hang THEN "hung" ELSE "loop"]
         /\ screen' = IF d.hang THEN screen ELSE ScreenOf(current_menu)
    /\ UNCHANGED << now, menu_lock, vm_list_cache, last_refresh, vm_list, aliased,
                    main_row, hidden_vms, current_menu, cfg, va, pollervars, frame >>

\* the draw of the active screen raises: the loop ends in cleanup_handler
UiDrawRaises ==
    /\ pc["ui"] = "loop"
    /\ \E d \in ActiveDraw : d.crash
    /\ Exit("crashed")

\* key == ord('q'): break, then cleanup_handler()
UiQuit ==
    /\ pc["ui"] = "loop"
    /\ Drawn # {}
    /\ Exit("exited")

\* 'c' opening the ConfigMenu from whatever screen is active
UiOpenConfigAnywhere ==
    /\ pc["ui"] = "loop"
    /\ published' = current_menu
    /\ Drawn # {}
    /\ \E ok \in BOOLEAN :
         /\ current_menu' = IF ok THEN "config" ELSE "none"
         /\ screen' = IF ok THEN "config" ELSE ScreenOf(current_menu)
    /\ cfg' = NoCfg
    /\ UNCHANGED << now, menu_lock, caches, main_row, hidden_vms, vmm, va,
                    pollervars, pc, frame >>

\* key == ord('c') and not current_menu: ConfigMenu(...), or None when its
\* construction raises
UiOpenConfig ==
    /\ pc["ui"] = "loop"
    /\ current_menu = "none"
    /\ published' = current_menu
    /\ Drawn # {}
    /\ \E ok \in BOOLEAN :
         /\ current_menu' = IF ok THEN "config" ELSE "none"
         /\ screen' = IF ok THEN "config" ELSE ScreenOf(current_menu)
    /\ cfg' = NoCfg
    /\ UNCHANGED << now, menu_lock, caches, main_row, hidden_vms, vmm, va,
                    pollervars, pc, frame >>

\* a return to the main menu that leaves the submenu on the terminal
BackToMainWithoutRedraw(d) ==
    /\ published' = current_menu
    /\ current_menu' = "none"
    /\ cfg' = NoCfg
    /\ vmm' = NoVmm
    /\ power_state_cache' = d.cache
    /\ UNCHANGED << offloop, main_row, hidden_vms, va, pc, screen >>

\* a submenu's handle_input returned False: current_menu = None and the main
\* menu is redrawn (a curses.error of the redraw ends the loop)
BackToMain(d) ==
    \E r \in draw_screen :
      IF r.crash
      THEN Exit("crashed")
      ELSE /\ published' = current_menu
           /\ current_menu' = "none"
           /\ cfg' = NoCfg
           /\ vmm' = NoVmm
           /\ power_state_cache' = d.cache
           /\ screen' = "main"
           /\ UNCHANGED << offloop, main_row, hidden_vms, va, pc >>

\* ConfigMenu.handle_input(key), ConfigMenu.handle_vm_selection and
\* ConfigMenu.execute_option (the theme options change colours only)
UiConfigInput ==
    /\ pc["ui"] = "loop"
    /\ current_menu = "config"
    /\ \E k \in Keys \ {"none", "q"}, d \in Drawn :
       LET n == Len(cfg.vm_list)
           option == ConfigOptions[cfg.row + 1]
           Stay(c) == /\ cfg' = c
                      /\ published' = current_menu
                      /\ screen' = "config"
                      /\ UNCHANGED << offloop, main_row, hidden_vms, current_menu,
                                      power_state_cache, vmm, va, pc >>
       IN  IF cfg.in_vm_selection
           THEN IF k = "UP" /\ cfg.row > 0
                THEN Stay([cfg EXCEPT !.row = IF cfg.row - 1 = n THEN cfg.row - 2
                                              ELSE cfg.row - 1])
                ELSE IF k = "DOWN" /\ cfg.row < n + 1
                THEN Stay([cfg EXCEPT !.row = IF cfg.row + 1 = n THEN cfg.row + 2
                                              ELSE cfg.row + 1])
                ELSE IF k = "ENTER" /\ cfg.row > n
                THEN Stay([cfg EXCEPT !.in_vm_selection = FALSE, !.row = 0])
                ELSE IF k = "ENTER"
                THEN /\ hidden_vms' =
                          LET vm_id == cfg.vm_list[cfg.row + 1]
                          IN  IF vm_id \in hidden_vms THEN hidden_vms \ {vm_id}
                              ELSE hidden_vms \cup {vm_id}
                     /\ published' = current_menu
                     /\ screen' = "config"
                     /\ UNCHANGED << offloop, main_row, current_menu, cfg,
                                     power_state_cache, vmm, va, pc >>
                ELSE Stay(cfg)
           ELSE IF k = "UP" /\ cfg.row > 0
           THEN Stay([cfg EXCEPT !.row = cfg.row - 1])
           ELSE IF k = "DOWN" /\ cfg.row < Len(ConfigOptions) - 1
           THEN Stay([cfg EXCEPT !.row = cfg.row + 1])
           ELSE IF k = "ENTER" /\ option = "Back to Main Menu"
           THEN BackToMain(d)
           ELSE IF k = "ENTER" /\ option = "Hide/Show VMs"
           THEN /\ pc' = [pc EXCEPT !["ui"] = "cfg_acquire"]
                /\ published' = current_menu
                /\ screen' = "config"
                /\ UNCHANGED << offloop, main_row, hidden_vms, current_menu, cfg,
                                power_state_cache, vmm, va >>
           ELSE Stay(cfg)

\* execute_option, "Hide/Show VMs": with menu_lock: ... get_vm_list()
UiCfgAcquire ==
    /\ pc["ui"] = "cfg_acquire"
    /\ AcquireBlocking("ui")
    /\ Call("ui", FALSE, "cfg_assign")
    /\ UNCHANGED << now, caches, uivars, pollervars >>

\* self.vm_list = ...; in_vm_selection; current_row; the end of the with
\* block, which an exception of the calls inside it also passes through
UiCfgAssign ==
    /\ pc["ui"] = "cfg_assign"
    /\ frame' = [frame EXCEPT !["ui"] = NoFrame]
    /\ \E raised \in BOOLEAN :
         /\ Release("ui", raised)
         /\ IF raised
            THEN /\ pc' = [pc EXCEPT !["ui"] = "raised"]
                 /\ UNCHANGED cfg
            ELSE /\ pc' = [pc EXCEPT !["ui"] = "loop"]
                 /\ cfg' = [cfg EXCEPT
                        !.vm_list = [i \in 1..Len(frame["ui"].acc) |->
                                         frame["ui"].acc[i].id],
                        !.in_vm_selection = TRUE, !.row = 0]
    /\ UNCHANGED << now, caches, main_row, hidden_vms, published, current_menu,
                    vmm, va, screen, pollervars >>

\* MainMenu.handle_input(key); Enter builds VMMenu(stdscr, id, name), whose
\* __init__ runs update_vm_info() with last_update = 0
UiMainInput ==
    /\ pc["ui"] = "loop"
    /\ current_menu = "none"
    /\ Drawn # {}
    /\ \E k \in Keys \ {"none", "q", "c"} :
       IF k = "ENTER" /\ vm_list # << >>
       THEN IF main_row + 1 > Len(vm_list)
            THEN \* self.vm_list[self.current_row] raises IndexError
                 Exit("crashed")
            ELSE LET vm_id == vm_list[main_row + 1].id
                 IN  \E d \in update_vm_info(vm_id, 0) :
                       /\ published' = current_menu
                       /\ power_state_cache' = d.cache
                       /\ pc' = [pc EXCEPT !["ui"] = IF d.hang THEN "hung" ELSE "loop"]
                       /\ IF d.hang
                          THEN UNCHANGED << current_menu, vmm >>
                          ELSE /\ current_menu' = "vm"
                               /\ vmm' = [NoVmm EXCEPT !.vm_id = vm_id,
                                             !.last_update = d.last_update]
                       /\ UNCHANGED << offloop, main_row, hidden_vms, cfg, va >>
                       /\ screen' = "main"
       ELSE /\ main_row' = IF k = "UP" /\ main_row > 0 THEN main_row - 1
                           ELSE IF k = "DOWN" /\ main_row < Len(vm_list) - 1
                           THEN main_row + 1 ELSE main_row
            /\ published' = current_menu
            /\ screen' = "main"
            /\ UNCHANGED << offloop, hidden_vms, current_menu, cfg, vmm, va,
                            power_state_cache, pc >>

\* VMMenu.handle_input(key) and VMMenu.execute_option up to its call of
\* vm_action: a power option adds the "Attempting" message and draws
UiVmInput ==
    /\ pc["ui"] = "loop"
    /\ current_menu = "vm"
    /\ \E k \in Keys \ {"none", "q"}, d \in Drawn :
       IF k = "ENTER" /\ VMOptions[vmm.row + 1] = "Back to Main Menu"
       THEN BackToMain(d)
       ELSE /\ published' = current_menu
            /\ power_state_cache' = d.cache
            /\ IF k = "ENTER"
               THEN /\ vmm' = [vmm EXCEPT !.last_update = d.last_update,
                                          !.msg = "attempting"]
                    /\ pc' = [pc EXCEPT !["ui"] = "va_put"]
               ELSE /\ vmm' = [vmm EXCEPT !.last_update = d.last_update, !.row =
                                  IF k = "UP" /\ vmm.row > 0 THEN vmm.row - 1
                                  ELSE IF k = "DOWN" /\ vmm.row < Len(VMOptions) - 1
                                  THEN vmm.row + 1 ELSE vmm.row]
                    /\ UNCHANGED pc
            /\ screen' = "vm"
            /\ UNCHANGED << offloop, main_row, hidden_vms, current_menu, cfg, va >>

----------------------------------------------------------------------------
(* vm_action(vm_id, action, force, menu).                                  *)

\* selected.split()[0].lower() of execute_option, for the power options
action(selected) ==
    CASE selected = "Start VM" -> "start"
      [] selected = "Shutdown VM" -> "shutdown"
      [] selected = "Stop VM" -> "stop"
      [] selected = "Suspend VM" -> "suspend"

\* the action name execute_option passes to vm_action
api_action(selected) ==
    IF action(selected) = "shutdown" THEN "stop" ELSE action(selected)

\* vm_action's action_map: the operation of the PUT body, by action name
action_map ==
    [start |-> "on", stop |-> "off", shutdown |-> "shutdown", suspend |-> "suspend"]

\* the body of the PUT /vms/{id}/power that vm_action sends for the option
\* selected in the VMMenu
PutBody == action_map[api_action(VMOptions[vmm.row + 1])]

\* the status codes vm_action takes for an accepted request
Accepted == {"200", "204"}

\* a vm_action that reports success only when it could also log it
VmActionNeedsGate(name, response, got) ==
    IF name \notin DOMAIN action_map
    THEN [action |-> name, body |-> "none", response |-> "none", got |-> got,
          value |-> FALSE]
    ELSE [action |-> name, body |-> action_map[name], response |-> response,
          got |-> got, value |-> response \in Accepted /\ got]

\* vm_action(vm_id, action, force, menu) as a function of the action name,
\* of what the PUT ends with (a status code, requests.Timeout or another
\* RequestException) and of whether menu_lock.acquire(timeout=1.0) for the
\* log write succeeds: the body sent ("none": no request) and the value
\* returned
vm_action(name, response, got) ==
    IF name \notin DOMAIN action_map
    THEN [action |-> name, body |-> "none", response |-> "none", got |-> got,
          value |-> FALSE]
    ELSE [action |-> name, body |-> action_map[name], response |-> response,
          got |-> got, value |-> response \in Accepted]

\* vm_action returns success; execute_option adds the outcome's message and
\* draws the menu again
VaReturn(success) ==
    /\ va' = "none"
    /\ \E d \in VMDraw :
         /\ power_state_cache' = d.cache
         /\ vmm' = [vmm EXCEPT !.last_update = d.last_update,
                               !.msg = IF success THEN "success" ELSE "failed"]
         /\ pc' = [pc EXCEPT !["ui"] = IF d.hang THEN "hung" ELSE "loop"]
         /\ screen' = IF d.hang THEN screen ELSE "vm"

\* requests.put(..., timeout=10), then menu_lock.acquire(timeout=1.0) of the
\* branch the response selects; without the lock the log write is skipped
\* and vm_action returns
UiVaPut ==
    /\ pc["ui"] = "va_put"
    /\ \E o \in RequestOutcomes(PutTimed), got \in BOOLEAN :
         /\ AcquireTimed("ui", got)
         /\ IF got
            THEN /\ va' = o
                 /\ pc' = [pc EXCEPT !["ui"] = "va_log"]
                 /\ UNCHANGED << power_state_cache, vmm, screen >>
            ELSE VaReturn(o = "ok")
    /\ UNCHANGED << now, vm_list_cache, last_refresh, vm_list, aliased, main_row,
                    hidden_vms, published, current_menu, cfg, pollervars, frame >>

\* log_message(...) under the lock, menu_lock.release(), return
UiVaLog ==
    /\ pc["ui"] = "va_log"
    /\ Release("ui", FALSE)
    /\ VaReturn(va = "ok")
    /\ UNCHANGED << now, vm_list_cache, last_refresh, vm_list, aliased, main_row,
                    hidden_vms, published, current_menu, cfg, pollervars, frame >>

----------------------------------------------------------------------------
(* The program.                                                            *)

Init ==
    /\ now = StartTime
    /\ menu_lock = "free"
    /\ vm_list_cache = << >>
    /\ last_refresh = 0
    /\ power_state_cache = [v \in VMIds |-> NoEntry]
    /\ vm_list = << >>
    /\ aliased = FALSE
    /\ main_row = 0
    /\ hidden_vms = {}
    /\ published = "none"
    /\ current_menu = "none"
    /\ cfg = NoCfg
    /\ vmm = NoVmm
    /\ va = "none"
    /\ screen = "main"
    /\ pc = [ui |-> "init", poller |-> "not_started"]
    /\ frame = [t \in Threads |-> NoFrame]
    /\ current_time = 0
    /\ last_full_refresh = 0
    /\ last_power_check = 0
    /\ wake = 0
    /\ branch = "none"

UiStep ==
    \/ UiInit \/ UiInitAssign \/ UiCleanup
    \/ GetVmListCall("ui") \/ GetVmListLoop("ui") \/ GetVmListCommit("ui")
    \/ UiIdle \/ UiDrawRaises \/ UiQuit \/ UiOpenConfig \/ UiConfigInput
    \/ UiCfgAcquire \/ UiCfgAssign \/ UiMainInput \/ UiVmInput
    \/ UiVaPut \/ UiVaLog

PollerStep ==
    \/ PollerTop \/ PollerAcquire \/ PollerLocked
    \/ GetVmListCall("poller") \/ GetVmListLoop("poller") \/ GetVmListCommit("poller")
    \/ PollerFullAssign \/ PollerPowerLoop \/ PollerPowerDone

Next == UiStep \/ PollerStep \/ Tick

Spec == Init /\ [][Next]_vars

\* the interactive thread keeps running: a step of vm_action that can be
\* taken is taken (requests.put returns within its timeout of 10 s, the
\* timed acquire within 1 s)
FairSpec == Spec /\ WF_vars(UiVaPut) /\ WF_vars(UiVaLog)

----------------------------------------------------------------------------
(* api/vm_get.py on its own: one caller (the thread "ui", at position      *)
(* "client" between calls) applies get_vm_list and get_vm_power_state to   *)
(* arbitrary arguments at arbitrary times, against a hypervisor with two   *)
(* VMs. The menus and the poller stay as constructed. frame["ui"].acc      *)
(* holds what the last call returned and va what its request ended with.   *)

\* the listings GET /vms can answer this caller with
WideListings == {<< >>, <<"a">>, <<"b">>, <<"a", "b">>, <<"b", "a">>}
\* the caller's clock advances by ClockStep, up to StartTime + ClientElapsed
ClockStep == 1
ClientElapsed == 6

\* what the caller's calls leave alone
clientrest == << menu_lock, vm_list, aliased, main_row, hidden_vms, published,
                current_menu, cfg, vmm, screen, pollervars >>

ClientInit ==
    /\ now = StartTime
    /\ menu_lock = "free"
    /\ vm_list_cache = << >>
    /\ last_refresh = 0
    /\ power_state_cache = [v \in VMIds |-> NoEntry]
    /\ vm_list = << >>
    /\ aliased = FALSE
    /\ main_row = 0
    /\ hidden_vms = {}
    /\ published = "none"
    /\ current_menu = "none"
    /\ cfg = NoCfg
    /\ vmm = NoVmm
    /\ va = "none"
    /\ screen = "main"
    /\ pc = [ui |-> "client", poller |-> "not_started"]
    /\ frame = [t \in Threads |-> NoFrame]
    /\ current_time = 0
    /\ last_full_refresh = 0
    /\ last_power_check = 0
    /\ wake = 0
    /\ branch = "none"

\* get_vm_list(force) is called
ClientGetVmList ==
    /\ pc["ui"] = "client"
    /\ \E force \in BOOLEAN : Call("ui", force, "client")
    /\ va' = "none"
    /\ UNCHANGED << now, vm_list_cache, last_refresh, power_state_cache, clientrest >>

\* get_vm_power_state(vm_id) is called and returns (or hangs)
ClientGetVmPowerState ==
    /\ pc["ui"] = "client"
    /\ \E vm_id \in VMIds : \E r \in get_vm_power_state(vm_id) :
         /\ va' = r.outcome
         /\ power_state_cache' = r.cache
         /\ frame' = [frame EXCEPT !["ui"] =
                [NoFrame EXCEPT !.listing = << vm_id >>,
                                !.acc = << [id |-> vm_id, power_state |-> r.state] >>]]
         /\ pc' = [pc EXCEPT !["ui"] = IF r.hang THEN "hung" ELSE "client"]
    /\ UNCHANGED << now, vm_list_cache, last_refresh, clientrest >>

\* time passes between and during the calls
ClientTick ==
    /\ now + ClockStep <= StartTime + ClientElapsed
    /\ now' = now + ClockStep
    /\ UNCHANGED << menu_lock, caches, uivars, pollervars, pc, frame >>

ClientNext ==
    \/ ClientGetVmList \/ ClientGetVmPowerState \/ ClientTick
    \/ GetVmListFrom("ui", WideListings) \/ GetVmListLoop("ui")
    \/ GetVmListCommit("ui")

ClientSpec == ClientInit /\ [][ClientNext]_vars

----------------------------------------------------------------------------
(* Vocabulary of the properties.                                           *)

\* a step of thread t that is not the end of the process
ThreadStep(t) ==
    IF t = "ui" THEN UiStep /\ pc'["ui"] \notin {"exited", "crashed"}
    ELSE PollerStep

\* the step assigns the inventory cache, MainMenu.vm_list or the
\* power-state cache
CacheWrite == caches' # caches

\* the interactive loop's active screen is a ConfigMenu or a VMMenu
SubmenuActive == current_menu # "none"

\* thread t is inside a section of code guarded by menu_lock: between a
\* successful acquire and the release that pairs with it (get_vm_list is
\* called from guarded sections only)
InGate(t) ==
    \/ frame[t].ret # "none"
    \/ t = "ui" /\ pc[t] \in {"init_assign", "cfg_assign", "va_log"}
    \/ t = "poller" /\ pc[t] \in {"locked", "full_assign", "power_loop", "hung"}

\* thread t is at a point an exception took it to
RaisedAt(t) == pc[t] = (IF t = "ui" THEN "raised" ELSE "backoff")

\* the poller's step is the end of the tick's full / power-only refresh
FullEnds == pc["poller"] = "full_assign" /\ pc'["poller"] \in {"sleep", "backoff"}
PowerEnds == pc["poller"] = "power_loop" /\ pc'["poller"] \in {"sleep", "backoff"}

----------------------------------------------------------------------------
(* The properties.                                                         *)

\* C1: the poller writes neither the inventory cache (vm_list_cache,
\* last_refresh, MainMenu.vm_list) nor the power-state cache in a step taken
\* while the interactive loop's active screen is a ConfigMenu or a VMMenu.
C1_NoPollerWriteInSubmenu ==
    [][PollerStep /\ SubmenuActive => ~CacheWrite]_vars

\* C2: every step of either thread that writes the inventory cache or the
\* power-state cache is taken by a thread that holds menu_lock.
C2_WritesUnderGate ==
    [][\A t \in Threads : ThreadStep(t) /\ CacheWrite => menu_lock = t]_vars

\* C3: at every instant at most one thread is inside a gate-guarded section.
C3_MutualExclusion == ~(InGate("ui") /\ InGate("poller"))

\* C3, its case: the poller is inside its power-only refresh body while the
\* interactive thread waits to enter its config-menu inventory fetch
C3_Witness == pc["poller"] = "power_loop" /\ pc["ui"] = "cfg_acquire"

\* C4: a step in which a thread holding menu_lock raises leaves menu_lock
\* free, and no thread is at a point an exception took it to with menu_lock
\* still held.
C4_ReleasedOnRaise ==
    [][\A t \in Threads :
          /\ (menu_lock = t /\ ~RaisedAt(t) /\ RaisedAt(t)') => menu_lock' = "free"
          /\ RaisedAt(t) => menu_lock # t]_vars

\* C4, its case: the poller's refresh raised under the gate, the poller is in
\* its back-off sleep and the gate is free
C4_Witness ==
    pc["poller"] = "backoff" /\ branch \in {"full", "power"} /\ menu_lock = "free"

\* C5: every hypervisor call made while menu_lock is held is bounded by a
\* request timeout: no thread waits forever in a request with menu_lock held.
C5_NoHangUnderGate == \A t \in Threads : pc[t] = "hung" => menu_lock # t

\* C6: after the poller has been started the interactive loop never waits at
\* an untimed acquisition of menu_lock while the poller is stuck in a refresh.
C6_NoBlockingAcquireAfterStart ==
    ~(pc["ui"] = "cfg_acquire" /\ pc["poller"] = "hung" /\ menu_lock = "poller")

\* C7: a power action issued from the VM menu always returns its outcome
\* to the menu, whoever holds menu_lock and for however long: the step after
\* the request either takes the free lock for the log write or, the lock
\* being held, skips the log write and returns; the step after the log write
\* releases the lock and returns.
C7_VmActionReturns ==
    /\ [][/\ (pc["ui"] = "va_put" /\ pc'["ui"] # "va_put") =>
               \/ pc'["ui"] = "va_log" /\ menu_lock = "free" /\ menu_lock' = "ui"
               \/ /\ menu_lock # "free" /\ UNCHANGED menu_lock
                  /\ vmm'.msg \in {"success", "failed"}
          /\ (pc["ui"] = "va_log" /\ pc'["ui"] # "va_log") =>
               /\ menu_lock' = "free"
               /\ vmm'.msg \in {"success", "failed"}]_vars
    /\ (pc["ui"] = "va_put") ~>
           (pc["ui"] \notin {"va_put", "va_log"} /\ vmm.msg \in {"success", "failed"})

\* C7, its case: the power action returned its outcome to the VM menu while
\* the poller holds the gate forever
C7_Witness ==
    /\ pc["poller"] = "hung"
    /\ menu_lock = "poller"
    /\ current_menu = "vm"
    /\ vmm.msg \in {"success", "failed"}

C9_FailedAcquireSkipsTick ==
    [][(PollerStep /\ pc["poller"] = "acquire" /\ menu_lock # "free") =>
          /\ pc'["poller"] = "sleep"
          /\ wake' = now + REFRESH_INTERVAL
          /\ UNCHANGED << caches, last_full_refresh, last_power_check,
                          menu_lock, frame >>]_vars

\* C9, its case: the try-acquire failed, the poller sleeps, and the full
\* refresh the tick would have run is still due
C9_Witness ==
    pc["poller"] = "sleep" /\ branch = "timeout" /\ FullDue /\ menu_lock = "ui"

\* C10: every navigation check the poller makes while a ConfigMenu or a
\* VMMenu is the active screen observes the submenu: the poller goes on to
\* acquire the gate only from a check made with the main menu active.
C10_CheckSeesSubmenu ==
    [][(PollerStep /\ pc["poller"] \in {"top", "sleep", "backoff"}
           /\ pc'["poller"] = "acquire") => ~SubmenuActive]_vars

----------------------------------------------------------------------------
(* The program in front of a hypervisor with two VMs, watched by a user    *)
(* who presses no key but 'q': the start-up fetch, the idle iterations of  *)
(* the interactive loop (each draws the main screen from MainMenu.vm_list) *)
(* and the poller.                                                         *)

WatchUiStep ==
    \/ UiInit \/ UiInitAssign \/ UiCleanup
    \/ GetVmListFrom("ui", WideListings) \/ GetVmListLoop("ui")
    \/ GetVmListCommit("ui")
    \/ UiIdle \/ UiDrawRaises \/ UiQuit

WatchPollerStep ==
    \/ PollerTop \/ PollerAcquire \/ PollerLocked
    \/ GetVmListFrom("poller", WideListings) \/ GetVmListLoop("poller")
    \/ GetVmListCommit("poller")
    \/ PollerFullAssign \/ PollerPowerLoop \/ PollerPowerDone

WatchNext == WatchUiStep \/ WatchPollerStep \/ Tick

WatchSpec == Init /\ [][WatchNext]_vars

----------------------------------------------------------------------------
(* The program in front of a hypervisor with two VMs while the clock       *)
(* stands at its first reading: the start-up fetch, the poller's first     *)
(* tick (a full refresh, since last_full_refresh starts at 0) and a user   *)
(* who moves the selection, opens a VMMenu with Enter, and hides and shows *)
(* VMs in the ConfigMenu, but selects no power option.                     *)

BrowseUiStep ==
    \/ WatchUiStep
    \/ UiOpenConfig \/ UiConfigInput \/ UiCfgAcquire \/ UiCfgAssign
    \/ UiMainInput

BrowsePollerStep ==
    \/ PollerTop \/ PollerAcquire \/ PollerLocked
    \/ GetVmListFrom("poller", WideListings) \/ GetVmListLoop("poller")
    \/ GetVmListCommit("poller")
    \/ PollerFullAssign

BrowseNext == BrowseUiStep \/ BrowsePollerStep

BrowseSpec == Init /\ [][BrowseNext]_vars

----------------------------------------------------------------------------
(* api/vm_put.py alone: a caller at "action" calls vm_action with any      *)
(* action name, the hypervisor answers the PUT in any way, and another     *)
(* thread takes and releases menu_lock at any time. va holds the last      *)
(* call: its action name, the body sent, the response, whether the lock    *)
(* was acquired for the log write, and the value returned.                 *)

\* action names: the four of action_map and two that it does not hold
ActionNames == {"start", "stop", "shutdown", "suspend", "restart", ""}

\* what the PUT ends with: a status code or an exception of requests
PutResponses == {"200", "204", "404", "500", "timeout", "neterror"}

NoCall == [action |-> "none", body |-> "none", response |-> "none",
           got |-> FALSE, value |-> FALSE]

ActionInit ==
    /\ now = StartTime
    /\ menu_lock = "free"
    /\ vm_list_cache = << >>
    /\ last_refresh = 0
    /\ power_state_cache = [v \in VMIds |-> NoEntry]
    /\ vm_list = << >>
    /\ aliased = FALSE
    /\ main_row = 0
    /\ hidden_vms = {}
    /\ published = "none"
    /\ current_menu = "none"
    /\ cfg = NoCfg
    /\ vmm = NoVmm
    /\ va = NoCall
    /\ screen = "main"
    /\ pc = [ui |-> "action", poller |-> "not_started"]
    /\ frame = [t \in Threads |-> NoFrame]
    /\ current_time = 0
    /\ last_full_refresh = 0
    /\ last_power_check = 0
    /\ wake = 0
    /\ branch = "none"

\* vm_action up to the timed acquire that precedes its log write
ActionCall ==
    /\ pc["ui"] = "action"
    /\ \E name \in ActionNames, response \in PutResponses, got \in BOOLEAN :
         /\ AcquireTimed("ui", got)
         /\ va' = vm_action(name, response, got)
         /\ pc' = [pc EXCEPT !["ui"] = IF got THEN "action_log" ELSE "action"]
    /\ UNCHANGED << now, caches, main_row, hidden_vms, published, current_menu,
                    cfg, vmm, screen, pollervars, frame >>

\* log_message(...) under the lock, menu_lock.release(), return
ActionLog ==
    /\ pc["ui"] = "action_log"
    /\ Release("ui", FALSE)
    /\ pc' = [pc EXCEPT !["ui"] = "action"]
    /\ UNCHANGED << now, caches, uivars, pollervars, frame >>

\* another thread acquires menu_lock
OtherAcquires ==
    /\ menu_lock = "free"
    /\ menu_lock' = "poller"
    /\ UNCHANGED << now, caches, uivars, pollervars, pc, frame >>

\* the other thread releases menu_lock
OtherReleases ==
    /\ menu_lock = "poller"
    /\ menu_lock' = "free"
    /\ UNCHANGED << now, caches, uivars, pollervars, pc, frame >>

ActionNext == ActionCall \/ ActionLog \/ OtherAcquires \/ OtherReleases

ActionSpec == ActionInit /\ [][ActionNext]_vars

----------------------------------------------------------------------------
(* Vocabulary of the properties of api/vm_get.py.                          *)

\* thread t's get_vm_list passes its cache test (and its request, if any)
ListCallStep(t) == pc[t] = "gvl_call" /\ pc'[t] # "gvl_call"
\* the age of the inventory cache is below the TTL
InventoryFresh == now - last_refresh < CACHE_TIMEOUT
\* the step returns the cached inventory: no request was made
ServedFromCache(t) ==
    /\ pc'[t] = frame[t].ret
    /\ frame'[t].same
    /\ frame'[t].acc = vm_list_cache
\* the step returns after a request that failed
ListCallFailed(t) == pc'[t] = frame[t].ret /\ ~frame'[t].same

\* C12: a non-forced get_vm_list made while the last successfully fetched
\* inventory (an empty one included) is younger than CACHE_TIMEOUT returns
\* the cached inventory and makes no request.
C12_FreshServedFromCache ==
    [][\A t \in Threads :
          ListCallStep(t) /\ ~frame[t].force /\ InventoryFresh
              => ServedFromCache(t)]_vars

\* the ids of an inventory, in its order
Ids(inventory) == [i \in 1..Len(inventory) |-> inventory[i].id]
\* thread t's get_vm_list assigns the cache and returns
ListCommitStep(t) == pc[t] = "gvl_loop" /\ pc'[t] = frame[t].ret

\* C13: a get_vm_list(force=True) that succeeds leaves in the inventory
\* cache exactly the VMs of the response to that call, in the response's
\* order, whatever the cache held before (so a repeated refresh with the
\* same response gives the same cache), and returns that inventory.
C13_CacheIsResponse ==
    [][\A t \in Threads :
          ListCommitStep(t) /\ frame[t].force
              => /\ Ids(vm_list_cache') = frame[t].listing
                 /\ frame'[t].acc = vm_list_cache']_vars

\* a forced refresh is about to replace a cached <<a, b>> by the
\* response <<b, a>>
C13_Witness ==
    /\ pc["ui"] = "gvl_loop"
    /\ frame["ui"].force
    /\ frame["ui"].listing = << "b", "a" >>
    /\ frame["ui"].idx > 2
    /\ Ids(vm_list_cache) = << "a", "b" >>

\* C14: a get_vm_list whose request fails returns the cached inventory
\* (the empty list only when nothing is cached).
C14_FailureReturnsCache ==
    [][\A t \in Threads :
          ListCallStep(t) /\ ListCallFailed(t)
              => frame'[t].acc = vm_list_cache]_vars

\* the caller's get_vm_power_state call
PowerCallStep == pc["ui"] = "client" /\ pc'["ui"] # "gvl_call" /\ now' = now
\* the request of the call just made failed (an exception or a non-OK answer)
PowerCallFailed == va' \in {"rejected", "neterror"}
\* the VM the caller's get_vm_power_state call was about
Asked == frame["ui"].listing[1]
\* the power-state cache entry of vm_id is missing or has reached the TTL
PowerStale(vm_id) ==
    \/ power_state_cache[vm_id] = NoEntry
    \/ now - power_state_cache[vm_id].t >= CACHE_TIMEOUT

\* C15: a failed request inside get_vm_list leaves vm_list_cache and
\* last_refresh as they were, a failed request inside get_vm_power_state
\* leaves the power-state cache as it was, and a non-forced call on a stale
\* entry is never answered from the cache.
C15_FailureRecordsNothing ==
    [][/\ \A t \in Threads :
            /\ ListCallStep(t) /\ ListCallFailed(t)
                 => UNCHANGED << vm_list_cache, last_refresh >>
            /\ ListCallStep(t) /\ ~InventoryFresh
                 => ~(pc'[t] = frame[t].ret /\ frame'[t].same)
       /\ PowerCallStep /\ PowerCallFailed
            => UNCHANGED power_state_cache
       /\ PowerCallStep /\ PowerStale(frame'["ui"].listing[1])
            => va' # "cached"]_vars

\* a power-state request failed for a VM whose entry had expired, and the
\* expired entry is still there
C15_Witness ==
    /\ pc["ui"] = "client"
    /\ va \in {"rejected", "neterror"}
    /\ power_state_cache[Asked] # NoEntry
    /\ PowerStale(Asked)

\* thread t's get_vm_list stores the power state of one VM of the response
ListLoopStep(t) == pc[t] = "gvl_loop" /\ frame'[t].idx = frame[t].idx + 1
\* the request of the call just made was answered
PowerCallAnswered == va' = "ok"

\* C18: every power state that a get_vm_list(force=True) stores in a record
\* comes from a request made for it: the power-state cache does not answer.
C18_ForcedFetchesPower ==
    [][\A t \in Threads :
          ListLoopStep(t) /\ frame[t].force
              => PowerStale(frame[t].listing[frame[t].idx])]_vars

\* C19: a get_vm_power_state(A) answered by the client sets A's entry to
\* the answer and the time of the call and leaves the entry of every other
\* VM as it was; so does each power-state lookup of get_vm_list.
C19_OnlyOwnEntry ==
    [][/\ PowerCallStep /\ PowerCallAnswered
            => /\ power_state_cache'[frame'["ui"].listing[1]] =
                    [t |-> now, state |-> frame'["ui"].acc[1].power_state]
               /\ \A B \in VMIds \ {frame'["ui"].listing[1]} :
                    power_state_cache'[B] = power_state_cache[B]
       /\ \A t \in Threads :
            ListLoopStep(t)
                => \A B \in VMIds \ {frame[t].listing[frame[t].idx]} :
                     power_state_cache'[B] = power_state_cache[B]]_vars

\* A's entry has just been fetched while another VM's entry is older
C19_Witness ==
    /\ pc["ui"] = "client"
    /\ va = "ok"
    /\ power_state_cache[Asked].t = now
    /\ \E B \in VMIds \ {Asked} :
         /\ power_state_cache[B] # NoEntry
         /\ power_state_cache[B].t < now

\* C20: a get_vm_power_state whose request fails returns "UNKNOWN" to its
\* caller (it does not raise) and leaves every entry of the power-state
\* cache as it was.
C20_FailureIsUnknown ==
    [][PowerCallStep /\ PowerCallFailed
          => /\ pc'["ui"] = "client"
             /\ frame'["ui"].acc[1].power_state = "UNKNOWN"
             /\ \A v \in VMIds : power_state_cache'[v] = power_state_cache[v]]_vars

\* "UNKNOWN" was returned for a VM with an expired entry while the other
\* VM has an entry too
C20_Witness ==
    /\ pc["ui"] = "client"
    /\ va \in {"rejected", "neterror"}
    /\ frame["ui"].acc[1].power_state = "UNKNOWN"
    /\ \A v \in VMIds : power_state_cache[v] # NoEntry

----------------------------------------------------------------------------
(* Failures of the hypervisor during the poller's refreshes.               *)

\* the get_vm_list of the full refresh that ends returned after its request
\* failed
FullFailed == FullEnds /\ ~frame["poller"].same

\* C16: a poller full refresh whose inventory request fails leaves
\* MainMenu.vm_list as it was.
C16_FailedRefreshKeepsList ==
    [][FullFailed => vm_list' = vm_list]_vars

\* C17: after a poller full refresh whose inventory request failed, the
\* full refresh is due again when the poller's sleep ends, so the next tick
\* with the main menu active attempts it again.
C17_FailedRefreshRetried ==
    [][FullFailed => wake' - last_full_refresh' >= FULL_REFRESH_INTERVAL]_vars

----------------------------------------------------------------------------
(* Suspension of the poller while a VMMenu is open.                        *)

\* C11: a poller tick that begins while a VMMenu is the active screen and
\* reaches its refresh decision with the VMMenu still active starts neither
\* the full refresh nor the power-state refresh.
C11_NoRefreshInVmMenu ==
    [][(PollerStep /\ pc["poller"] = "locked" /\ branch = "checked_vm"
           /\ current_menu = "vm") => branch' = "nothing"]_vars

----------------------------------------------------------------------------
(* Navigation.                                                             *)

\* the navigation state: the main menu, the ConfigMenu or the VMMenu of a VM
NavState ==
    IF current_menu = "vm" THEN << "vm", vmm.vm_id >> ELSE << current_menu, "none" >>

\* C21: the navigation state is always the main menu, the ConfigMenu or
\* the VMMenu of one VM; it starts as the main menu; while the process runs
\* it changes only by an iteration of the interactive loop, between the
\* main menu and a submenu (never from one submenu to another), and no
\* poller step changes it.
C21_Navigation ==
    /\ NavState = << "none", "none" >>
    /\ [](/\ current_menu \in {"none", "config", "vm"}
          /\ current_menu = "vm" <=> vmm.vm_id \in VMIds)
    /\ [][NavState' # NavState /\ Running'
            => /\ UiStep
               /\ ~PollerStep
               /\ pc["ui"] = "loop"
               /\ "none" \in {current_menu, current_menu'}]_vars

\* the main menu is active again after a VMMenu, which the poller still
\* reads as open, while the poller sleeps
C21_Witness ==
    /\ current_menu = "none"
    /\ published = "vm"
    /\ pc["poller"] = "sleep"
    /\ branch = "suspended"

----------------------------------------------------------------------------
(* Shutdown and failures.                                                  *)

\* C23: after the shutdown signal the poller ends by leaving its loop at
\* the loop's top, where it tests the shutdown flag: it is never ended in
\* the middle of an iteration.
C23_PollerLeavesAtTop ==
    [][pc'["ui"] = "exited" /\ pc'["poller"] = "killed"
          => pc["poller"] \in {"top", "sleep", "backoff"}]_vars

\* C24: no failure inside a poller iteration stops the poller while the
\* process runs: the poller is never left waiting without end.
C24_PollerNeverStops == Running => pc["poller"] # "hung"

\* C25: whatever the hypervisor answered, the interactive loop never ends
\* because of an error raised while a key of the Hide/Show screen is
\* handled or that screen is drawn.
C25_NoFatalError ==
    [][current_menu = "config" /\ cfg.in_vm_selection
          => pc'["ui"] # "crashed"]_vars

----------------------------------------------------------------------------
(* Power actions.                                                          *)

\* vm_action returns True to execute_option, which reports it and draws
VaSucceeds == vmm.msg = "attempting" /\ vmm'.msg = "success"
\* a VMMenu.draw() in the current state asks the hypervisor for the power
\* state of the menu's VM: update_interval has passed since the last update
\* and the VM's power-state cache entry does not answer
DrawFetchesPower ==
    /\ now - vmm.last_update >= update_interval
    /\ PowerStale(vmm.vm_id)

\* C27: when vm_action returns True, the VM's power state is fetched from
\* the hypervisor again as part of the handling of the action.
C27_RefreshAfterAction ==
    [][VaSucceeds => DrawFetchesPower]_vars

\* the operation each power option of the VMMenu stands for
Operation ==
    [o \in {"Start VM", "Shutdown VM", "Stop VM", "Suspend VM"} |->
        CASE o = "Start VM" -> "on"
          [] o = "Shutdown VM" -> "shutdown"
          [] o = "Stop VM" -> "off"
          [] o = "Suspend VM" -> "suspend"]

\* C28: the PUT sent for a power option carries that option's operation:
\* on for Start VM, shutdown for Shutdown VM, off for Stop VM and suspend
\* for Suspend VM.
C28_OptionSendsItsOperation ==
    pc["ui"] = "va_put" => PutBody = Operation[VMOptions[vmm.row + 1]]

\* C29: when the PUT of vm_action ends with a timeout, a rejection or a
\* network error, what vm_action returns lets the VMMenu report which of
\* the three it was: the menu's message names the outcome.
C29_OutcomeReported ==
    [][pc["ui"] = "va_log" /\ pc'["ui"] # "va_log"
          /\ va \in {"timeout", "rejected", "neterror"}
          => vmm'.msg = va]_vars

----------------------------------------------------------------------------
(* Logging.                                                                *)

\* the log messages the poller's step emits: those of refresh_vm_list
\* around the call of get_vm_list, that of get_vm_list before its request,
\* and that of a get_vm_power_state that makes a request
PollerLogs ==
    IF pc'["poller"] = "killed" THEN {}
    ELSE IF pc["poller"] = "locked" /\ pc'["poller"] = "gvl_call" THEN {RefreshLog}
    ELSE IF pc["poller"] = "gvl_call" /\ pc'["poller"] # "gvl_call" THEN {ApiCallLog}
    ELSE IF FullEnds /\ pc'["poller"] = "sleep" THEN {RefreshLog}
    ELSE IF /\ pc["poller"] \in {"gvl_loop", "power_loop"}
            /\ frame'["poller"].idx = frame["poller"].idx + 1
            /\ PowerStale(IF pc["poller"] = "gvl_loop"
                          THEN frame["poller"].listing[frame["poller"].idx]
                          ELSE vm_list[frame["poller"].idx].id)
    THEN {ApiCallLog}
    ELSE {}

\* C30: no log message emitted during a refresh tick of the poller is put
\* on the on-screen status queue.
C30_RefreshLogsOffScreen ==
    [][\A m \in PollerLogs : ~m.queued]_vars

----------------------------------------------------------------------------
(* Readers outside the gate.                                               *)

\* the poller's power-state refresh has written the state of some records
\* of MainMenu.vm_list and not yet that of the others
PartialPowerRefresh ==
    /\ pc["poller"] = "power_loop"
    /\ 1 < frame["poller"].idx
    /\ frame["poller"].idx <= Len(vm_list)

\* the interactive loop is at an iteration that draws the main screen from
\* MainMenu.vm_list (it takes no lock for it)
MainRender == pc["ui"] = "loop" /\ current_menu = "none"

\* C26: a render of the main screen never finds a refresh of the poller
\* applied to some VM records and not to the others.
C26_RenderSeesWholeRefresh == MainRender => ~PartialPowerRefresh

\* the interactive loop leaves a submenu for the main menu
BackStep == current_menu # "none" /\ current_menu' = "none" /\ Running'

\* the power cache as the draw of the submenu at the top of the same
\* iteration left it, before the key was handled
AfterDraw == {d.cache : d \in Drawn}

\* C22: every step of the interactive loop that returns from a submenu to
\* the main menu leaves the main screen drawn on the terminal, and in
\* handling the return it calls no client function and writes no cache: the
\* inventory cache, its time stamp and the displayed list are as before,
\* and the power cache is as the draw that preceded the key left it
C22_ReturnRedrawsOnly ==
    [][BackStep
         => /\ pc["ui"] = "loop" /\ pc'["ui"] = "loop"
            /\ screen' = "main"
            /\ UNCHANGED << vm_list_cache, last_refresh, vm_list, aliased, frame >>
            /\ power_state_cache' \in AfterDraw]_vars

\* the main menu was just redrawn on a return from the ConfigMenu
C22_Witness ==
    /\ pc["ui"] = "loop"
    /\ current_menu = "none"
    /\ published = "config"
    /\ screen = "main"

\* the interactive thread is in the initial fetch: before it, inside
\* get_vm_list(force=True), or at the assignment that ends it
InitialFetch ==
    \/ pc["ui"] \in {"init", "init_assign"}
    \/ pc["ui"] \in {"gvl_call", "gvl_loop"} /\ frame["ui"].ret = "init_assign"

\* refresh_thread.start()
WorkerStarts == pc["poller"] = "not_started" /\ pc'["poller"] # "not_started"

PowerRefreshStep == pc["poller"] = "power_loop" /\ pc'["poller"] # "killed"

\* the step ends a refresh_vm_list(force=True), of the poller or of main's
\* start, whose get_vm_list returned the inventory of a response
RefreshFromResponse ==
    \/ FullEnds /\ frame["poller"].same
    \/ pc["ui"] = "init_assign" /\ frame["ui"].same

\* C32: a step of the power-state-only refresh leaves the ids and the order
\* of MainMenu.vm_list and of the inventory cache, and the cache's time
\* stamp, as they were; and while the program runs the ids or the order of
\* MainMenu.vm_list change only in the step that ends a full refresh whose
\* request was answered with a listing
C32_MembershipByFullRefresh ==
    [][/\ PowerRefreshStep
           => /\ Ids(vm_list') = Ids(vm_list)
              /\ Ids(vm_list_cache') = Ids(vm_list_cache)
              /\ last_refresh' = last_refresh
       /\ Ids(vm_list') # Ids(vm_list) /\ Running'
           => RefreshFromResponse]_vars

\* the time before which the timers allow no further full / power-only
\* refresh to start
NextFullAllowed == last_full_refresh + FULL_REFRESH_INTERVAL
NextPowerAllowed == last_power_check + POWER_STATE_INTERVAL

\* C33: the step that ends a full refresh leaves last_power_check alone and
\* the step that ends a power-only refresh leaves last_full_refresh alone;
\* and a refresh that started at current_time leaves its own timer such that
\* the next refresh of its kind is allowed no earlier than its interval
\* after current_time (30 s for full refreshes, 10 s for power-only ones)
C33_TimersSpaceRefreshes ==
    [][/\ FullEnds
           => /\ last_power_check' = last_power_check
              /\ NextFullAllowed' >= current_time + FULL_REFRESH_INTERVAL
       /\ PowerEnds
           => /\ last_full_refresh' = last_full_refresh
              /\ NextPowerAllowed' >= current_time + POWER_STATE_INTERVAL]_vars

\* the step handles the key 'q': the only way the program ends without
\* an exception
QuitKey == pc["ui"] = "loop" /\ pc'["ui"] = "exited"

\* C34: the key 'q' ends the program only when the main menu is the active
\* screen; with a ConfigMenu or a VMMenu active it does not
C34_QuitOnlyFromMain ==
    [][QuitKey => current_menu = "none"]_vars

\* C35: whenever MainMenu.vm_list is non-empty, MainMenu.current_row is an
\* index of it: 0 <= current_row < len(vm_list)
C35_SelectionInRange ==
    vm_list # << >> => 0 <= main_row /\ main_row < Len(vm_list)

\* the step is an Enter on the main menu that opens a VMMenu
OpensVmMenu == current_menu = "none" /\ current_menu' = "vm"

\* C36: the VMMenu that Enter opens on the main menu is the one of the VM
\* that the draw of the main screen in the same iteration highlighted, and
\* that VM is not hidden
C36_EnterOpensHighlighted ==
    [][OpensVmMenu
         => vmm'.vm_id = highlighted /\ vmm'.vm_id \notin hidden_vms]_vars

\* the poller, holding the gate, takes the step of its second test of
\* main_menu.current_menu, and a submenu has been published since the test
\* at the top of the tick
SecondCheckSeesSubmenu ==
    /\ pc["poller"] = "locked" /\ published # "none"
    /\ pc'["poller"] \notin {"locked", "killed"}

\* C37: a tick that finds a submenu published at its test under the gate
\* runs no refresh: it writes no cache, leaves last_full_refresh and
\* last_power_check alone, releases the gate and sleeps
C37_SecondCheckSkipsTick ==
    [][SecondCheckSeesSubmenu
         => /\ branch' = "nothing"
            /\ pc'["poller"] = "sleep"
            /\ menu_lock = "poller" /\ menu_lock' = "free"
            /\ UNCHANGED << caches, last_full_refresh, last_power_check >>]_vars

\* the tick was skipped at the second test although a refresh was due
C37_Witness ==
    /\ pc["poller"] = "sleep"
    /\ branch = "nothing"
    /\ published # "none"
    /\ FullDue \/ PowerDue
    /\ menu_lock = "free"

\* C38: the value vm_action returned is True exactly when the action name
\* is start, stop, shutdown or suspend and the PUT was answered with status
\* 200 or 204, whether or not the lock for the log write was acquired; and
\* for any other action name no request was sent
C38_TrueIffAccepted ==
    /\ va.value <=> /\ va.action \in {"start", "stop", "shutdown", "suspend"}
                    /\ va.response \in {"200", "204"}
    /\ va.action \notin {"start", "stop", "shutdown", "suspend"}
           => va.body = "none"

\* vm_action returned True for an accepted request whose log write was
\* skipped because another thread held the lock
C38_Witness ==
    /\ pc["ui"] = "action"
    /\ va.value
    /\ va.response = "204"
    /\ ~va.got

\* the interactive loop is at a row of the Hide/Show screen that names a VM
OnVmRow ==
    /\ pc["ui"] = "loop"
    /\ current_menu = "config"
    /\ cfg.in_vm_selection
    /\ cfg.row < Len(cfg.vm_list)

\* the hidden set after the flag of vm_id is toggled
Toggled(hidden, vm_id) ==
    IF vm_id \in hidden THEN hidden \ {vm_id} ELSE hidden \cup {vm_id}

\* C39: while the program runs, hidden_vms changes only in a step of the
\* ConfigMenu's key handling taken on a VM row of the Hide/Show screen, and
\* that step toggles the flag of that row's VM and of no other (so a second
\* toggle of the same VM restores the set); no step of the poller and no
\* step of get_vm_list changes it
C39_HiddenByToggleOnly ==
    [][hidden_vms' # hidden_vms /\ Running'
         => /\ OnVmRow
            /\ UiConfigInput
            /\ hidden_vms' = Toggled(hidden_vms, cfg.vm_list[cfg.row + 1])
            /\ Toggled(hidden_vms', cfg.vm_list[cfg.row + 1]) = hidden_vms]_vars

\* a VM hidden by the user is still hidden after a full refresh of the poller
C39_Witness ==
    /\ hidden_vms # {}
    /\ current_menu = "none"
    /\ branch = "full"
    /\ pc["poller"] \in {"sleep", "backoff"}

\* thread t is at a statement that acquires menu_lock: the with blocks of
\* main and of ConfigMenu.execute_option, the timed acquires of vm_action
\* and of vm_refresh_worker
AtAcquire(t) ==
    IF t = "ui" THEN pc[t] \in {"init", "cfg_acquire", "va_put"}
    ELSE pc[t] = "acquire"

\* C40: a thread that is about to acquire menu_lock does not hold it and is
\* not inside a section guarded by it: nothing that runs inside a guarded
\* section (refresh_vm_list, get_vm_list, get_vm_power_state, log_message,
\* draw_screen) acquires the lock
C40_NoNestedAcquire ==
    \A t \in Threads : AtAcquire(t) => menu_lock # t /\ ~InGate(t)

\* the ConfigMenu's get_vm_list runs inside the guarded section while the
\* poller is at its timed acquire
C40_Witness ==
    /\ menu_lock = "ui"
    /\ pc["ui"] = "gvl_loop"
    /\ frame["ui"].ret = "cfg_assign"
    /\ pc["poller"] = "acquire"

====
